---- MODULE Spec2Model ----
(***************************************************************************)
(* Session and data-synchronisation core of Sistema_Alianzas.              *)
(*                                                                         *)
(*   utils/api (src/unnamed/part_000): the request gateway apiFetch and    *)
(*     the refresh coordinator refreshToken / isRefreshing /               *)
(*     refreshPromise.                                                     *)
(*   ConfigContext (src/unnamed/part_001): handleLogin, handleLogout and   *)
(*     the bootstrap effect fetchConfigData and the permission effect.     *)
(*   SystemContext (src/contexts/SystemContext.tsx): the audit mirror      *)
(*     (fetchLogs, logAction) and the error list (window.onerror).         *)
(*                                                                         *)
(* Scheduling is the browser event loop: a handler runs to completion up   *)
(* to its next await on a network round trip, so one action is one task    *)
(* together with the microtasks it releases.  All reactions registered on  *)
(* one promise are queued together when it settles, hence every apiFetch   *)
(* call that awaits the same refreshPromise resumes in the task that       *)
(* settles it.                                                             *)
(*                                                                         *)
(* Six specifications share the variables:                                 *)
(*   Spec      gateway, coordinator, credential store, sign-in, sign-out   *)
(*   SpecBoot  the bootstrap effect, each apiFetch it awaits settling with *)
(*             one of the outcomes ApiOutcome / SessionExpired can produce *)
(*   SpecPerm  the permission effect, for every default table              *)
(*   SpecAudit the audit mirror, each apiFetch summarised by ApiRun        *)
(*   SpecErr   the error list                                              *)
(*   SpecFetch one apiFetch call alone, for every answer of the server and *)
(*             of the coordinator                                          *)
(***************************************************************************)
EXTENDS Integers, Sequences, FiniteSets, Bags, TLC

\* ------------------------------------------------------------------ bounds
MaxCalls == 4        \* apiFetch calls started in a run
MaxExchanges == 2    \* refresh exchanges issued in a run

\* ------------------------------------------------------------- value sets
None == "null"       \* localStorage.getItem of an absent key, null, undefined

\* The server issues "A1"/"R1" at sign-in and a new access credential at each
\* refresh exchange: FreshToken(k) at the k-th exchange.
FreshToken(k) == IF k = 1 THEN "A2" ELSE IF k = 2 THEN "A3" ELSE IF k = 3 THEN "A4" ELSE "A5"

UserIds == {"u-admin", "u-tech", "u-oper"}

RoleOf(u) ==
    IF u = "u-admin" THEN "role-admin"
    ELSE IF u = "u-tech" THEN "role-tech"
    ELSE IF u = "u-oper" THEN "role-operator"
    ELSE "role-unknown"

\* A JSON payload.  Every payload carries the same fields; a field a body
\* does not have is None (undefined), a body without items has items = <<>>.
Payload(u, a, r, it) == [user |-> u, accessToken |-> a, refreshToken |-> r, items |-> it]

EmptyObject == Payload(None, None, None, <<>>)

\* Error messages are sequences of words, so that String.includes is
\* membership of a word.
Includes(msg, w) == \E i \in 1..Len(msg) : msg[i] = w

StatusWord(s) ==
    CASE s = 400 -> "400" [] s = 401 -> "401" [] s = 403 -> "403"
      [] s = 404 -> "404" [] s = 500 -> "500" [] OTHER -> "0"

SessionExpiredMsg == <<"Session expired. Please log in again.">>
FailedToFetchMsg == <<"Failed to fetch">>
CannotReachServerMsg == <<"No se pudo conectar al servidor.">>
NoBody == <<>>

SyntaxErrorMsg == <<"Unexpected end of JSON input">>

\* An HTTP response: status 0 is a transport failure (fetch rejects),
\* ctype the content-type class, msg the message field of an error body
\* (NoBody when the body is not JSON or has no message), body the payload,
\* valid whether response.json() parses the body.
Response(s, ct, m, b) == [status |-> s, ctype |-> ct, msg |-> m, body |-> b, valid |-> TRUE]

TransportFailure == Response(0, "none", NoBody, EmptyObject)
JsonOk(b) == Response(200, "json", NoBody, b)
TextOk == Response(200, "text", NoBody, EmptyObject)
NoContent == Response(204, "none", NoBody, EmptyObject)
HttpError(s, m) == Response(s, "json", m, EmptyObject)
\* A response announced as JSON whose body response.json() rejects.
MalformedJson(s) == [Response(s, "json", NoBody, EmptyObject) EXCEPT !.valid = FALSE]

Unauthorized == HttpError(401, <<"expired">>)

\* What the server may answer to a data request, to POST /auth/login and to
\* POST /auth/refresh-token.
DataResponses ==
    { JsonOk(Payload(None, None, None, <<"d1">>)), Unauthorized,
      HttpError(500, NoBody) }

LoginResponses ==
    { JsonOk(Payload("u-admin", "A1", "R1", <<>>)), JsonOk(Payload("u-admin", "A1", None, <<>>)),
      Unauthorized, TransportFailure }

RefreshResponses(k) ==
    { JsonOk(Payload(None, FreshToken(k), r, <<>>)) : r \in {"R2", None} }
    \cup { Unauthorized, TransportFailure }

ResponsesFor(ep) == IF ep = "/auth/login" THEN LoginResponses ELSE DataResponses

\* --------------------------------------------------------- pure functions
IsOk(resp) == resp.status >= 200 /\ resp.status <= 299

Ok(d) == [ok |-> TRUE, data |-> d, msg |-> NoBody]
Err(m) == [ok |-> FALSE, data |-> EmptyObject, msg |-> m]
Pending == [ok |-> FALSE, data |-> EmptyObject, msg |-> <<"pending">>]

\* part_000 lines 92-102
ErrorMessage(resp) ==
    IF resp.msg # NoBody THEN resp.msg
    ELSE <<"HTTP error! status:", StatusWord(resp.status)>>

\* part_000 lines 125-137
NormalizeError(msg) ==
    IF msg = FailedToFetchMsg \/ Includes(msg, "NetworkError") \/ Includes(msg, "Connection refused")
    THEN CannotReachServerMsg
    ELSE msg

\* A gateway that hands out the body whatever the content-type.
ApiOutcome_IgnoresContentType(resp) ==
    IF resp.status = 0 THEN Err(NormalizeError(FailedToFetchMsg))
    ELSE IF ~IsOk(resp) THEN Err(NormalizeError(ErrorMessage(resp)))
    ELSE IF resp.status = 204 THEN Ok(EmptyObject)
    ELSE IF resp.valid THEN Ok(resp.body)
    ELSE Err(NormalizeError(SyntaxErrorMsg))

\* part_000 lines 91-138, applied to the response that is not replaced;
\* response.json() at line 120 rejects a body that does not parse.
ApiOutcome(resp) ==
    IF resp.status = 0 THEN Err(NormalizeError(FailedToFetchMsg))
    ELSE IF ~IsOk(resp) THEN Err(NormalizeError(ErrorMessage(resp)))
    ELSE IF resp.status = 204 THEN Ok(EmptyObject)
    ELSE IF resp.ctype = "json"
         THEN (IF resp.valid THEN Ok(resp.body) ELSE Err(NormalizeError(SyntaxErrorMsg)))
    ELSE Ok(EmptyObject)

SessionExpired == Err(NormalizeError(SessionExpiredMsg))

\* ------------------------------------------------------------------ state
VARIABLES
    storage,          \* localStorage: accessToken, refreshToken, rememberedUser
    isRefreshing,     \* part_000 line 40
    refreshPromise,   \* part_000 line 41: 0 is null, k the promise of exchange k
    exchanges,        \* history: the POST /auth/refresh-token exchanges issued, in order
    calls,            \* the apiFetch calls in flight (a bag of call records)
    started,          \* history: apiFetch calls started so far
    settled,          \* history: the calls answered by the coordinator that returned
                      \* in the last task
    toasts,           \* history: addToast titles emitted by the last task, counted
    lastRefresh,      \* history: the answer to the exchange that settled in the last task
    reloadPending,    \* window.location.reload() was called, page not yet torn down
    sessionLost,      \* history: a refresh exchange failed and nobody signed in since
    currentUser,      \* AuthContext identity (a user id) or None
    isAuthenticated,  \* AuthContext active-session flag
    boot,             \* the invocations of fetchConfigData, in order
    lastGated,        \* history: the gated group that settled in the last task
    lastFailed,       \* history: the first-group fetches that had thrown when the
                      \* first group settled in the last task
    lastCompany,      \* history: the fetch of /company-info that settled in the last task
    lastThrown,       \* history: the message of the error caught at part_001 line 155
                      \* in the last task (NoBody: none)
    isLoading,        \* part_001 line 70
    companyInfo,      \* part_001 line 60
    categories, offices, shippingTypes, paymentMethods,   \* part_001 lines 61-66
    users, roles, expenseCategories, cuentasContables,    \* part_001 lines 62-68
    userPermissions,  \* part_001 line 69
    DEFAULT_ROLE_PERMISSIONS,  \* part_001 line 8: the table imported from '../constants'
    auditLog,         \* SystemContext.tsx line 18: the local mirror, newest first
    logWrites,        \* the logAction calls awaiting their POST (a bag)
    logReads,         \* the fetchLogs calls awaiting their GET
    lastAudit,        \* history: the audit request that settled in the last task
    auditOps,         \* history: logAction calls and sign-ins so far
    appErrors,        \* SystemContext.tsx line 19, newest first
    errorEvents,      \* history: window.onerror events so far
    fetch,            \* one apiFetch call followed from its start to its return
    awaited           \* history: the times that call resumed from `await refreshPromise`

gwVars == <<storage, isRefreshing, refreshPromise, exchanges, calls, started, settled,
            lastRefresh, reloadPending, sessionLost>>
bootVars == <<boot, lastGated, lastFailed, lastCompany, lastThrown, isLoading, companyInfo, categories, offices, shippingTypes, paymentMethods,
              users, roles, expenseCategories, cuentasContables>>
permVars == <<userPermissions, DEFAULT_ROLE_PERMISSIONS>>
auditVars == <<auditLog, logWrites, logReads, lastAudit, auditOps>>
errVars == <<appErrors, errorEvents>>
fetchVars == <<fetch, awaited>>
sideVars == <<permVars, auditVars, errVars, fetchVars>>
vars == <<storage, isRefreshing, refreshPromise, exchanges, calls, started, settled, lastRefresh, toasts,
          reloadPending, sessionLost, currentUser, isAuthenticated,
          boot, lastGated, lastFailed, lastCompany, lastThrown, isLoading, companyInfo, categories, offices, shippingTypes,
          paymentMethods, users, roles, expenseCategories, cuentasContables,
          userPermissions, DEFAULT_ROLE_PERMISSIONS,
          auditLog, logWrites, logReads, lastAudit, auditOps, appErrors, errorEvents,
          fetch, awaited>>

ToastTitles == {"Bienvenido", "Error de Autenticacion", "Sesion Cerrada", "Error al cerrar sesion",
                "Error de Carga Parcial"}
NoToasts == [t \in ToastTitles |-> 0]

\* part_001 lines 46-52 and 60; data/contabilidad PLAN_DE_CUENTAS_INICIAL
LoadingCompanyInfo == <<"Cargando...">>
FALLBACK_COMPANY_INFO == <<"Sistema de Gestion", "Sin Conexion al Servidor">>
PLAN_DE_CUENTAS_INICIAL == <<"plan-de-cuentas-inicial">>

\* part_001 lines 110-113 and 135-138
AlwaysFetchable == {"/categories", "/offices", "/shipping-types", "/payment-methods"}
Gated == {"/users", "/roles", "/expense-categories", "/cuentas-contables"}

\* No gated group settled in the last task.
NoGroup == [run |-> 0, g |-> [ep \in Gated |-> Pending]]

\* No fetch of /company-info settled in the last task.
NoCompany == [run |-> 0, res |-> Pending, sent |-> 0]

\* A Permissions object is the set of the keys it grants; {} is the empty
\* object.  A table is a function on the role ids it has an entry for; the
\* lookup of any other role id yields undefined.
RoleIds == {RoleOf(u) : u \in UserIds}
NoDefaults == [r \in {} |-> {}]

\* No exchange settled in the last task.
NoRefresh == [k |-> 0, accessToken |-> None, refreshToken |-> None]

EmptyStorage == [accessToken |-> None, refreshToken |-> None, rememberedUser |-> None]

\* One apiFetch invocation.
\*   st        "sent" first request in flight, "waitRefresh" awaiting
\*             refreshPromise, "retry" replay in flight, "done" returned
\*   hdr       Authorization of the first request (None: header not set)
\*   retryHdr  Authorization of the replay (None: no replay sent)
\*   sent      requests sent to the endpoint
\*   awaits    the exchange whose promise is awaited at line 76 (0: none)
\*   got       value of newAccessToken at line 76 ("unset" before)
\*   final     the last response received
\*   res       what the caller receives
\*   expired   history: started while sessionLost
NewCall(ep, owner, token, expired) ==
    [ep |-> ep, owner |-> owner, st |-> "sent", hdr |-> token,
     retryHdr |-> None, sent |-> 1, awaits |-> 0, got |-> "unset",
     final |-> TransportFailure, res |-> Pending, expired |-> expired]

One(r) == SetToBag({r})
Active == BagToSet(calls)
\* A call to which `await refreshPromise` (part_000 line 76) has yielded.
Answered(r) == r.got # "unset"

Returned == BagToSet(settled)
ExchangeIds == 1..Len(exchanges)

InFlight == {k \in ExchangeIds : exchanges[k].st = "inflight"}

\* The calls of bag B that satisfy Test, as a bag.
SubBagOf(B, Test(_)) ==
    LET keep == {r \in DOMAIN B : Test(r)} IN [r \in keep |-> B[r]]

\* The bag of F(r) for the calls r of bag B, F one-to-one on them.
MapBag(B, F(_)) ==
    [q \in {F(r) : r \in DOMAIN B} |-> B[CHOOSE r \in DOMAIN B : F(r) = q]]

IsLogin(owner) == owner \in {"login-remember", "login"}

\* A sign-in in flight starts one more call (logAction) when it succeeds.
Reserved == BagCardinality(SubBagOf(calls, LAMBDA r : IsLogin(r.owner)))
Room(n) == started + Reserved + n <= MaxCalls

InitCore ==
    /\ storage = EmptyStorage
    /\ isRefreshing = FALSE
    /\ refreshPromise = 0
    /\ exchanges = <<>>
    /\ calls = EmptyBag
    /\ started = 0
    /\ settled = EmptyBag
    /\ lastRefresh = NoRefresh
    /\ toasts = NoToasts
    /\ reloadPending = FALSE
    /\ sessionLost = FALSE
    /\ currentUser = None
    /\ isAuthenticated = FALSE
    /\ boot = <<>>
    /\ lastGated = NoGroup
    /\ lastFailed = {}
    /\ lastCompany = NoCompany
    /\ lastThrown = NoBody
    /\ isLoading = TRUE
    /\ companyInfo = LoadingCompanyInfo
    /\ categories = <<>>
    /\ offices = <<>>
    /\ shippingTypes = <<>>
    /\ paymentMethods = <<>>
    /\ users = <<>>
    /\ roles = <<>>
    /\ expenseCategories = <<>>
    /\ cuentasContables = <<>>

\* SystemContext.tsx lines 18-19
NoAudit == [kind |-> "none", sawLogs |-> FALSE, res |-> Pending, sent |-> 0]
InitAudit ==
    /\ auditLog = <<>>
    /\ logWrites = EmptyBag
    /\ logReads = 0
    /\ lastAudit = NoAudit
    /\ auditOps = [logActions |-> 0, signIns |-> 0]

InitErrors ==
    /\ appErrors = <<>>
    /\ errorEvents = 0

\* No apiFetch call is followed.
NoFetch == [NewCall("none", "api", None, FALSE) EXCEPT !.st = "idle", !.sent = 0]
InitFetch ==
    /\ fetch = NoFetch
    /\ awaited = 0

\* part_001 line 69; the table is read by the permission effect only.
InitSide ==
    /\ userPermissions = {}
    /\ DEFAULT_ROLE_PERMISSIONS = NoDefaults
    /\ InitAudit
    /\ InitErrors
    /\ InitFetch

Init == InitCore /\ InitSide

\* ------------------------------------------------------ refreshToken()
\* part_000 lines 18 and 22
ExchangeOk(resp) == resp.status # 0 /\ IsOk(resp) /\ resp.valid

\* part_000 lines 18-28 and 29-36: the value the promise resolves to.
RefreshValue(resp) ==
    IF ExchangeOk(resp) THEN resp.body.accessToken ELSE None

\* part_000 line 22: the credentials the answer to exchange k carries.
RefreshAnswer(k, resp) ==
    IF ExchangeOk(resp)
    THEN [k |-> k, accessToken |-> resp.body.accessToken, refreshToken |-> resp.body.refreshToken]
    ELSE [k |-> k, accessToken |-> None, refreshToken |-> None]

\* A success path that never replaces the refresh credential.
RefreshStore_KeepsOldRefresh(st, resp) ==
    IF ExchangeOk(resp)
    THEN [st EXCEPT !.accessToken = resp.body.accessToken]
    ELSE [st EXCEPT !.accessToken = None, !.refreshToken = None]

\* A failure path that forgets the access credential.
RefreshStore_KeepsAccess(st, resp) ==
    IF ExchangeOk(resp)
    THEN [st EXCEPT !.accessToken = resp.body.accessToken,
                    !.refreshToken = IF resp.body.refreshToken # None
                                     THEN resp.body.refreshToken ELSE @]
    ELSE [st EXCEPT !.refreshToken = None]

\* part_000 lines 23-26 and 32-33: the credential store afterwards.
RefreshStore(st, resp) ==
    IF ExchangeOk(resp)
    THEN [st EXCEPT !.accessToken = resp.body.accessToken,
                    !.refreshToken = IF resp.body.refreshToken # None
                                     THEN resp.body.refreshToken ELSE @]
    ELSE [st EXCEPT !.accessToken = None, !.refreshToken = None]

\* A gateway in which every call that gets null from the promise reloads.
Reloads_PerWaiter(resp, waiting) == IF ExchangeOk(resp) THEN 0 ELSE waiting

\* part_000 lines 29-36 and 85-88: the window.location.reload() calls made
\* when an exchange is answered and `waiting` calls resume from line 76: one
\* in the catch block of refreshToken(), none in the calls that throw.
Reloads(resp, waiting) == IF ExchangeOk(resp) THEN 0 ELSE 1

\* A coordinator that does not look at the flag.
StartsRefresh_Always == TRUE

\* part_000 line 71
StartsRefresh == ~isRefreshing

\* A coordinator whose flag is never lowered.
Released_Never(flag, resumes) == flag

\* part_000 line 77: every call that resumes from `await refreshPromise`
\* lowers the flag.
Released(flag, resumes) == IF resumes THEN FALSE ELSE flag

\* A call that never shares the promise of a cycle under way.
AwaitsOutstanding_Never == FALSE

\* part_000 lines 71-76: the flag is up and refreshPromise is pending, so the
\* call awaits the exchange in flight.
AwaitsOutstanding == ~StartsRefresh /\ refreshPromise \in InFlight

\* A replay that keeps the Authorization header of the first request.
Resume_StaleToken(call, value) ==
    IF value # None
    THEN [call EXCEPT !.st = "retry", !.got = value, !.retryHdr = call.hdr, !.sent = @ + 1]
    ELSE [call EXCEPT !.st = "done", !.got = None, !.res = SessionExpired]

\* A call that replays without a credential instead of throwing.
Resume_ReplaysOnNull(call, value) ==
    [call EXCEPT !.st = "retry", !.got = value, !.retryHdr = value, !.sent = @ + 1]

\* part_000 lines 76-88: the call once `await refreshPromise` yields value.
Resume(call, value) ==
    IF value # None
    THEN [call EXCEPT !.st = "retry", !.got = value, !.retryHdr = value, !.sent = @ + 1]
    ELSE [call EXCEPT !.st = "done", !.got = None, !.res = SessionExpired]

\* A gateway that goes back to the coordinator when the replay is answered 401.
Settle_RefreshesAgain(call, resp) ==
    IF call.st = "retry" /\ resp.status = 401
    THEN [call EXCEPT !.st = "waitRefresh", !.final = resp]
    ELSE [call EXCEPT !.st = "done", !.final = resp, !.res = ApiOutcome(resp)]

\* A gateway that does not reassign `response` at line 84.
Settle_KeepsFirst(call, resp) ==
    [call EXCEPT !.st = "done", !.final = resp,
                 !.res = IF call.st = "retry" THEN ApiOutcome(call.final) ELSE ApiOutcome(resp)]

\* part_000 lines 91-138: the call once its last response is in.
Settle(call, resp) ==
    [call EXCEPT !.st = "done", !.final = resp, !.res = ApiOutcome(resp)]

\* ------------------------------------------- continuations of the callers
\* part_001 line 218
LoginValid(res) ==
    /\ res.ok
    /\ res.data.user # None
    /\ res.data.accessToken # None
    /\ res.data.refreshToken # None

\* A caller that reports the failure of an audit write to the user.
ToastFor_AuditFailure(call) ==
    IF call.owner \in {"INICIO_SESION", "CIERRE_SESION"} /\ ~call.res.ok
    THEN "Error de Carga Parcial"
    ELSE "none"

\* part_001 lines 228, 232, 242, 245
ToastFor(call) ==
    IF IsLogin(call.owner)
    THEN (IF LoginValid(call.res) THEN "Bienvenido" ELSE "Error de Autenticacion")
    ELSE IF call.owner = "logout"
    THEN (IF call.res.ok THEN "Sesion Cerrada" ELSE "Error al cerrar sesion")
    ELSE "none"

\* A sign-in that persists the access credential only.
LoginStore_AccessOnly(st, call) == [st EXCEPT !.accessToken = call.res.data.accessToken]

\* part_001 lines 219-223
LoginStore(st, call) ==
    [accessToken |-> call.res.data.accessToken,
     refreshToken |-> call.res.data.refreshToken,
     rememberedUser |-> IF call.owner = "login-remember" THEN call.res.data.user ELSE None]

\* A sign-out that empties the store.
LogoutStore_ClearsAll(st) == EmptyStorage

\* A sign-out that leaves the refresh credential in the store.
LogoutStore_KeepsRefresh(st) == [st EXCEPT !.accessToken = None]

\* part_001 lines 247-248
LogoutStore(st) == [st EXCEPT !.accessToken = None, !.refreshToken = None]

\* What the callers do when the apiFetch calls of bag `done` return in this
\* task: st0 is the store and live0 the calls in flight as the gateway leaves
\* them, lost0 the new sessionLost.  At most one call of `done` succeeded.
Continuations(st0, live0, done, lost0) ==
    LET okLogin == {r \in DOMAIN done : IsLogin(r.owner) /\ LoginValid(r.res)}
        outs == {r \in DOMAIN done : r.owner = "logout"}
        lc == CHOOSE r \in okLogin : TRUE
        st1 == IF okLogin # {} THEN LoginStore(st0, lc) ELSE st0
        st2 == IF outs # {} THEN LogoutStore(st1) ELSE st1
    IN  /\ storage' = st2
        /\ settled' = SubBagOf(done, Answered)
        /\ currentUser' = IF outs # {} THEN None
                          ELSE IF okLogin # {} THEN lc.res.data.user
                          ELSE currentUser
        /\ isAuthenticated' = IF outs # {} THEN FALSE
                              ELSE IF okLogin # {} THEN TRUE
                              ELSE isAuthenticated
        /\ toasts' = [t \in ToastTitles |->
                        BagCardinality(SubBagOf(done, LAMBDA r : ToastFor(r) = t))]
        \* part_001 line 229: logAction(user, 'INICIO_SESION', ...) -> POST /audit-logs
        /\ calls' = IF okLogin # {}
                    THEN live0 (+) One(NewCall("/audit-logs", "INICIO_SESION", st2.accessToken, FALSE))
                    ELSE live0
        /\ started' = IF okLogin # {} THEN started + 1 ELSE started
        /\ sessionLost' = IF okLogin # {} THEN FALSE ELSE lost0

\* ---------------------------------------------------------------- actions
\* Any caller's apiFetch(ep): part_000 lines 44-67.
CallApi(ep) ==
    /\ ~reloadPending
    /\ Room(1)
    /\ UNCHANGED <<bootVars, sideVars>>
    /\ lastRefresh' = NoRefresh
    /\ calls' = calls (+) One(NewCall(ep, "api", storage.accessToken, sessionLost))
    /\ started' = started + 1
    /\ settled' = EmptyBag
    /\ toasts' = NoToasts
    /\ UNCHANGED <<storage, isRefreshing, refreshPromise, exchanges, reloadPending,
                   sessionLost, currentUser, isAuthenticated>>

\* handleLogin up to its await: part_001 lines 211-216.
HandleLogin(rememberMe) ==
    /\ ~reloadPending
    /\ ~isAuthenticated
    /\ Room(2)
    /\ UNCHANGED <<bootVars, sideVars>>
    /\ lastRefresh' = NoRefresh
    /\ calls' = calls (+) One(NewCall("/auth/login",
                                      IF rememberMe THEN "login-remember" ELSE "login",
                                      storage.accessToken, sessionLost))
    /\ started' = started + 1
    /\ settled' = EmptyBag
    /\ toasts' = NoToasts
    /\ UNCHANGED <<storage, isRefreshing, refreshPromise, exchanges, reloadPending,
                   sessionLost, currentUser, isAuthenticated>>

\* handleLogout up to its await: part_001 lines 236-241.
HandleLogout ==
    /\ ~reloadPending
    /\ isAuthenticated
    /\ Room(2)
    /\ \A r \in Active : r.owner # "logout"
    /\ UNCHANGED <<bootVars, sideVars>>
    /\ lastRefresh' = NoRefresh
    /\ LET logged == IF currentUser # None
                     THEN calls (+) One(NewCall("/audit-logs", "CIERRE_SESION", storage.accessToken, sessionLost))
                     ELSE calls
       IN calls' = logged (+) One(NewCall("/auth/logout", "logout", storage.accessToken, sessionLost))
    /\ started' = started + (IF currentUser # None THEN 2 ELSE 1)
    /\ settled' = EmptyBag
    /\ toasts' = NoToasts
    /\ UNCHANGED <<storage, isRefreshing, refreshPromise, exchanges, reloadPending,
                   sessionLost, currentUser, isAuthenticated>>

\* The first request of call r is answered: part_000 lines 67-78, and on to
\* the end of apiFetch and into its caller when nothing has to be awaited.
FirstResponse(r, resp) ==
    /\ ~reloadPending
    /\ r.st = "sent"
    /\ resp \in ResponsesFor(r.ep)
    /\ UNCHANGED <<bootVars, sideVars>>
    /\ lastRefresh' = NoRefresh
    /\ LET rest == calls (-) One(r) IN
       IF resp.status # 401
       THEN /\ Continuations(storage, rest, One(Settle(r, resp)), sessionLost)
            /\ UNCHANGED <<isRefreshing, refreshPromise, exchanges, reloadPending>>
       ELSE IF StartsRefresh /\ storage.refreshToken # None
       THEN \* refreshToken() issues the exchange (line 12); the call awaits it
            /\ Len(exchanges) < MaxExchanges
            /\ exchanges' = Append(exchanges, [st |-> "inflight", with |-> storage.refreshToken,
                                               value |-> None, reloads |-> 0])
            /\ isRefreshing' = TRUE
            /\ refreshPromise' = Len(exchanges) + 1
            /\ calls' = rest (+) One([r EXCEPT !.st = "waitRefresh", !.final = resp,
                                               !.awaits = Len(exchanges) + 1])
            /\ settled' = EmptyBag
            /\ toasts' = NoToasts
            /\ UNCHANGED <<storage, started, reloadPending, sessionLost, currentUser, isAuthenticated>>
       ELSE IF AwaitsOutstanding
       THEN \* a cycle is outstanding: await the same promise (line 76)
            /\ calls' = rest (+) One([r EXCEPT !.st = "waitRefresh", !.final = resp,
                                               !.awaits = refreshPromise])
            /\ settled' = EmptyBag
            /\ toasts' = NoToasts
            /\ UNCHANGED <<storage, started, isRefreshing, refreshPromise, exchanges, reloadPending,
                           sessionLost, currentUser, isAuthenticated>>
       ELSE \* the promise awaited is already settled: refreshToken() returned
            \* null at line 8 (no refresh credential), or refreshPromise is
            \* null or settled; lines 76-88 run in this task
            LET value == IF StartsRefresh \/ refreshPromise = 0 THEN None
                         ELSE exchanges[refreshPromise].value
                resumed == Resume([r EXCEPT !.final = resp], value)
            IN  /\ isRefreshing' = FALSE
                /\ refreshPromise' = 0
                /\ IF value = None
                   THEN Continuations(storage, rest, One(resumed), sessionLost)
                   ELSE Continuations(storage, rest (+) One(resumed), EmptyBag, sessionLost)
                /\ UNCHANGED <<exchanges, reloadPending>>

\* The replay of call r is answered: part_000 lines 84, 91-138.
RetryResponse(r, resp) ==
    /\ ~reloadPending
    /\ r.st = "retry"
    /\ resp \in ResponsesFor(r.ep)
    /\ UNCHANGED <<bootVars, sideVars>>
    /\ lastRefresh' = NoRefresh
    /\ Continuations(storage, calls (-) One(r), One(Settle(r, resp)), sessionLost)
    /\ UNCHANGED <<isRefreshing, refreshPromise, exchanges, reloadPending>>

\* Exchange k is answered: refreshToken() lines 18-37, then every apiFetch
\* awaiting its promise runs lines 76-88, then the callers of those that threw.
ExchangeSettle(k, resp) ==
    /\ ~reloadPending
    /\ k \in InFlight
    /\ resp \in RefreshResponses(k)
    /\ UNCHANGED <<bootVars, sideVars>>
    /\ LET value == RefreshValue(resp)
           waiters == SubBagOf(calls, LAMBDA r : r.st = "waitRefresh" /\ r.awaits = k)
           others == SubBagOf(calls, LAMBDA r : ~(r.st = "waitRefresh" /\ r.awaits = k))
           resumed == MapBag(waiters, LAMBDA r : Resume(r, value))
       IN  /\ lastRefresh' = RefreshAnswer(k, resp)
           /\ exchanges' = [exchanges EXCEPT ![k].st = "settled", ![k].value = value,
                                             ![k].reloads = @ + Reloads(resp, BagCardinality(waiters))]
           /\ reloadPending' = ~ExchangeOk(resp)
           /\ isRefreshing' = Released(isRefreshing, waiters # EmptyBag)
           /\ refreshPromise' = IF waiters # EmptyBag THEN 0 ELSE refreshPromise
           /\ IF value = None
              THEN Continuations(RefreshStore(storage, resp), others, resumed,
                                 IF ExchangeOk(resp) THEN sessionLost ELSE TRUE)
              ELSE Continuations(RefreshStore(storage, resp), others (+) resumed, EmptyBag,
                                 sessionLost)

\* The reload requested at part_000 line 35 takes effect: module and React
\* state start afresh, requests in flight are dropped, localStorage stays.
PageReload ==
    /\ reloadPending
    /\ UNCHANGED <<bootVars, sideVars>>
    /\ lastRefresh' = NoRefresh
    /\ reloadPending' = FALSE
    /\ isRefreshing' = FALSE
    /\ refreshPromise' = 0
    /\ exchanges' = [k \in ExchangeIds |->
                        IF k \in InFlight THEN [exchanges[k] EXCEPT !.st = "dropped"]
                        ELSE exchanges[k]]
    /\ calls' = EmptyBag
    /\ settled' = EmptyBag
    /\ toasts' = NoToasts
    /\ currentUser' = None
    /\ isAuthenticated' = FALSE
    /\ UNCHANGED <<storage, started, sessionLost>>

Endpoints == {"/categories"}
\* The sign-in form is submitted with "remember me" ticked.
RememberMe == {TRUE}

Next ==
    \/ \E ep \in Endpoints : CallApi(ep)
    \/ \E rememberMe \in RememberMe : HandleLogin(rememberMe)
    \/ HandleLogout
    \/ \E r \in Active : \E resp \in ResponsesFor(r.ep) : FirstResponse(r, resp)
    \/ \E r \in Active : \E resp \in ResponsesFor(r.ep) : RetryResponse(r, resp)
    \/ \E k \in ExchangeIds : \E resp \in RefreshResponses(k) : ExchangeSettle(k, resp)
    \/ PageReload

Spec == Init /\ [][Next]_vars

\* part_000 lines 43-139 as seen by a caller: the outcome of one apiFetch
\* call and the requests it sent, given the first response, the value the
\* refresh yields on a 401 and the response to the replay.
ApiRun(first, value, second) ==
    IF first.status = 401
    THEN IF value # None
         THEN [res |-> ApiOutcome(second), sent |-> 2]
         ELSE [res |-> SessionExpired, sent |-> 1]
    ELSE [res |-> ApiOutcome(first), sent |-> 1]

ApiRuns(responses) ==
    {ApiRun(first, value, second) :
        first \in responses, value \in {None, FreshToken(1)}, second \in responses}

\* ============================================================== bootstrap
MaxRuns == 3         \* invocations of fetchConfigData in a behaviour

\* An elevated tier that takes everybody in.
HasFullAccess_All(u) == TRUE

\* part_001 lines 99-101
HasFullAccess(u) == RoleOf(u) = "role-admin" \/ RoleOf(u) = "role-tech"

\* What an apiFetch of the bootstrap may return or throw.
ListOk(items) == ApiOutcome(JsonOk(Payload(None, None, None, items)))
Forbidden == ApiOutcome(HttpError(403, <<"No tiene los permisos">>))
ServerFault == ApiOutcome(HttpError(500, NoBody))
NotFound == ApiOutcome(HttpError(404, NoBody))
ReplayDenied == ApiOutcome(Unauthorized)
Unreachable == ApiOutcome(TransportFailure)

\* What a fetch of the first group may throw.
Group1Errors == {Forbidden, Unreachable}
GatedOutcomes(ep) ==
    IF ep = "/cuentas-contables"
    THEN {ListOk(<<"c1">>), ListOk(<<>>), Forbidden, ServerFault}
    ELSE {ListOk(<<ep>>), Forbidden}
\* The server's answers to GET /company-info.
CompanyResponses ==
    {JsonOk(Payload(None, None, None, <<"company">>)), Unauthorized, HttpError(500, NoBody),
     TransportFailure}
\* What the apiFetch of /company-info may return or throw, with the requests
\* it sent.
CompanyRuns == ApiRuns(CompanyResponses)

\* A wrapper that gives up the data as well.
FetchSafe_Fallback(out, fallbackValue) == fallbackValue

\* part_001 lines 73-91: both catch branches return the fallback.
FetchSafe(out, fallbackValue) == IF out.ok THEN out.data.items ELSE fallbackValue

\* A chart that is defaulted whenever nothing was fetched.
CuentasAdopted_Collapsed(hasFullAccess, cuentasData) ==
    IF cuentasData # <<>> THEN cuentasData ELSE PLAN_DE_CUENTAS_INICIAL

\* part_001 lines 146-153
CuentasAdopted(hasFullAccess, cuentasData) ==
    IF hasFullAccess /\ cuentasData # <<>> THEN cuentasData
    ELSE IF hasFullAccess THEN PLAN_DE_CUENTAS_INICIAL
    ELSE <<>>

\* A group that is never rejected.
Rejected_Never(g) == FALSE

\* Promise.all (part_001 lines 109, 134): rejected as soon as one fetch has
\* thrown, fulfilled once all have returned.
Failures(g) == {ep \in DOMAIN g : g[ep] # Pending /\ ~g[ep].ok}
Rejected(g) == Failures(g) # {}
Fulfilled(g) == \A ep \in DOMAIN g : g[ep].ok
\* The message of the error Promise.all rejects with (part_001 line 155):
\* that of the fetch that has thrown; NoBody when the group is not rejected.
Rejection(g) == IF Rejected(g) THEN g[CHOOSE ep \in Failures(g) : TRUE].msg ELSE NoBody

\* A first group that settles as soon as one of its fetches has returned.
Group1Results_Race ==
    {[ep \in AlwaysFetchable |-> IF ep = f THEN ListOk(<<"d1">>) ELSE Pending] :
        f \in AlwaysFetchable}

\* The states of the first group in which its Promise.all settles: every
\* fetch has returned, or one has thrown while the others have all returned
\* or are all outstanding (which of them are outstanding changes nothing).
Group1Results ==
    {[ep \in AlwaysFetchable |-> ListOk(<<"d1">>)]} \cup
    {[ep \in AlwaysFetchable |-> IF ep = f THEN err
                                 ELSE IF ep \in P THEN Pending
                                 ELSE ListOk(<<"d1">>)] :
        f \in AlwaysFetchable, err \in Group1Errors, P \in {{}, AlwaysFetchable}}

\* What a fetch of the gated group may throw: 403 with the backend's
\* permission message, 404, 401 on the replay, the session-expired error, a
\* server fault, a transport failure.
GatedFailures == {Forbidden, NotFound, ReplayDenied, SessionExpired, ServerFault, Unreachable}

\* One gated fetch has thrown and the other three have returned their lists.
OneGatedFailure ==
    {[ep \in Gated |-> IF ep = f THEN err
                       ELSE IF ep = "/cuentas-contables" THEN ListOk(<<"c1">>)
                       ELSE ListOk(<<ep>>)] :
        f \in Gated, err \in GatedFailures}

\* The four fetchSafe of the gated group, all settled (fetchSafe never throws).
Group2Results ==
    OneGatedFailure \cup
    {[ep \in Gated |-> IF ep = "/users" THEN u
                       ELSE IF ep = "/roles" THEN r
                       ELSE IF ep = "/expense-categories" THEN e
                       ELSE c] :
        u \in GatedOutcomes("/users"), r \in GatedOutcomes("/roles"),
        e \in GatedOutcomes("/expense-categories"), c \in GatedOutcomes("/cuentas-contables")}

\* One invocation of fetchConfigData (part_001 lines 94-171) with the
\* identity its closure holds.
\*   phase      "g1" awaiting line 109, "g2" awaiting line 134, "company"
\*              awaiting line 162, "done", "aborted" (catch at line 155),
\*              "idle" (neither branch taken)
\*   requested  history: the endpoints this invocation has requested
\*   errors     history: partial-load notifications this invocation emitted
NewRun(auth, user) ==
    [auth |-> auth, user |-> user,
     phase |-> IF auth /\ user # None THEN "g1" ELSE IF ~auth THEN "company" ELSE "idle",
     requested |-> IF auth /\ user # None THEN AlwaysFetchable
                   ELSE IF ~auth THEN {"/company-info"} ELSE {},
     errors |-> 0]

RunIds == 1..Len(boot)

\* The effect of part_001 lines 93-173 runs: lines 95-114 or 160-162.
StartRun(auth, user) ==
    /\ Len(boot) < MaxRuns
    /\ boot' = Append(boot, NewRun(auth, user))
    /\ lastGated' = NoGroup
    /\ lastFailed' = {}
    /\ lastCompany' = NoCompany
    /\ lastThrown' = NoBody
    /\ isLoading' = IF auth /\ user # None THEN TRUE ELSE isLoading
    /\ toasts' = NoToasts
    /\ UNCHANGED <<companyInfo, categories, offices, shippingTypes, paymentMethods,
                   users, roles, expenseCategories, cuentasContables>>

\* The provider is mounted: the effect runs with the initial identity.
Mount ==
    /\ boot = <<>>
    /\ UNCHANGED <<gwVars, sideVars>>
    /\ StartRun(isAuthenticated, currentUser)
    /\ UNCHANGED <<currentUser, isAuthenticated>>

\* AuthContext changes the identity (part_001 lines 225-226, 249-250) and
\* the effect runs again; the invocations under way are not cancelled.
IdentityChange(auth, user) ==
    /\ boot # <<>>
    /\ auth <=> (user # None)
    /\ <<auth, user>> # <<isAuthenticated, currentUser>>
    /\ UNCHANGED <<gwVars, sideVars>>
    /\ isAuthenticated' = auth
    /\ currentUser' = user
    /\ StartRun(auth, user)

\* part_001 lines 142-153 and 158 for invocation i, given the gated data.
FinishRun(i, run, usersData, rolesData, expenseCategoriesData, cuentasData) ==
    /\ boot' = [boot EXCEPT ![i] = [run EXCEPT !.phase = "done"]]
    /\ users' = usersData
    /\ roles' = rolesData
    /\ expenseCategories' = expenseCategoriesData
    /\ cuentasContables' = CuentasAdopted(HasFullAccess(run.user), cuentasData)
    /\ isLoading' = FALSE
    /\ toasts' = NoToasts

\* The Promise.all of the first group of invocation i settles with g:
\* part_001 lines 109-140, or 155-158 when it is rejected.
Group1Settle(i, g) ==
    /\ boot[i].phase = "g1"
    /\ g \in Group1Results
    /\ UNCHANGED <<gwVars, sideVars>>
    /\ UNCHANGED <<currentUser, isAuthenticated, companyInfo>>
    /\ lastGated' = NoGroup
    /\ lastFailed' = Failures(g)
    /\ lastCompany' = NoCompany
    /\ lastThrown' = Rejection(g)
    /\ LET run == boot[i] IN
       IF Rejected(g)
       THEN /\ boot' = [boot EXCEPT ![i] = [run EXCEPT !.phase = "aborted", !.errors = @ + 1]]
            /\ toasts' = [NoToasts EXCEPT !["Error de Carga Parcial"] = 1]
            /\ isLoading' = FALSE
            /\ UNCHANGED <<categories, offices, shippingTypes, paymentMethods,
                           users, roles, expenseCategories, cuentasContables>>
       ELSE /\ categories' = g["/categories"].data.items
            /\ offices' = g["/offices"].data.items
            /\ shippingTypes' = g["/shipping-types"].data.items
            /\ paymentMethods' = g["/payment-methods"].data.items
            /\ IF HasFullAccess(run.user)
               THEN /\ boot' = [boot EXCEPT ![i] = [run EXCEPT !.phase = "g2",
                                                               !.requested = @ \cup Gated]]
                    /\ toasts' = NoToasts
                    /\ UNCHANGED <<isLoading, users, roles, expenseCategories, cuentasContables>>
               ELSE FinishRun(i, run, <<>>, <<>>, <<>>, <<>>)

\* The Promise.all of the gated group of invocation i settles with g:
\* part_001 lines 134-153 and 158.
Group2Settle(i, g) ==
    /\ boot[i].phase = "g2"
    /\ g \in Group2Results
    /\ UNCHANGED <<gwVars, sideVars>>
    /\ UNCHANGED <<currentUser, isAuthenticated, companyInfo,
                   categories, offices, shippingTypes, paymentMethods>>
    /\ lastGated' = [run |-> i, g |-> g]
    /\ lastFailed' = {}
    /\ lastCompany' = NoCompany
    /\ lastThrown' = NoBody
    /\ FinishRun(i, boot[i],
                 FetchSafe(g["/users"], <<>>),
                 FetchSafe(g["/roles"], <<>>),
                 FetchSafe(g["/expense-categories"], <<>>),
                 FetchSafe(g["/cuentas-contables"], <<>>))

\* A bootstrap that keeps the placeholder record when the fetch fails.
CompanyAdopted_KeepsPlaceholder(res) == IF res.ok THEN res.data.items ELSE LoadingCompanyInfo

\* part_001 lines 162-166: the record handed to setCompanyInfo.
CompanyAdopted(res) == IF res.ok THEN res.data.items ELSE FALLBACK_COMPANY_INFO

\* The apiFetch of /company-info of invocation i settles: part_001 lines
\* 162-169.
CompanySettle(i, run) ==
    /\ boot[i].phase = "company"
    /\ run \in CompanyRuns
    /\ UNCHANGED <<gwVars, sideVars>>
    /\ UNCHANGED <<currentUser, isAuthenticated, categories, offices, shippingTypes,
                   paymentMethods, users, roles, expenseCategories, cuentasContables>>
    /\ boot' = [boot EXCEPT ![i].phase = "done"]
    /\ lastGated' = NoGroup
    /\ lastFailed' = {}
    /\ lastCompany' = [run |-> i, res |-> run.res, sent |-> run.sent]
    /\ lastThrown' = NoBody
    /\ companyInfo' = CompanyAdopted(run.res)
    /\ isLoading' = FALSE
    /\ toasts' = NoToasts

NextBoot ==
    \/ Mount
    \/ \E user \in UserIds \cup {None} : \E auth \in BOOLEAN : IdentityChange(auth, user)
    \/ \E i \in RunIds : \E g \in Group1Results : Group1Settle(i, g)
    \/ \E i \in RunIds : \E g \in Group2Results : Group2Settle(i, g)
    \/ \E i \in RunIds : \E run \in CompanyRuns : CompanySettle(i, run)

SpecBoot == Init /\ [][NextBoot]_vars

\* ------------------------------------------- permission resolution effect
MaxRoles == 2        \* records in the fetched roles collection

PermissionSets == {{"invoices"}, {"invoices", "config"}}

\* The tables '../constants' may export: an entry for some of the role ids.
DefaultTables == UNION {[D -> PermissionSets] : D \in SUBSET RoleIds}

\* A Role record of the fetched collection.
RoleRecords == [id : RoleIds, permissions : PermissionSets]
RoleLists == UNION {[1..n -> RoleRecords] : n \in 0..MaxRoles}

\* Array.prototype.find: the index of the first element that satisfies the
\* test, 0 when find returns undefined.
Find(rs, roleId) ==
    IF \E k \in 1..Len(rs) : rs[k].id = roleId
    THEN CHOOSE k \in 1..Len(rs) : rs[k].id = roleId /\ \A j \in 1..(k - 1) : rs[j].id # roleId
    ELSE 0

\* A resolution that asks the default table first.
ResolvePermissions_DefaultsFirst(user, rs, table) ==
    IF user = None THEN {}
    ELSE IF RoleOf(user) \in DOMAIN table THEN table[RoleOf(user)]
    ELSE IF Find(rs, RoleOf(user)) # 0 THEN rs[Find(rs, RoleOf(user))].permissions
    ELSE {}

\* A resolution without the default tier.
ResolvePermissions_NoDefaults(user, rs, table) ==
    IF user = None THEN {}
    ELSE IF Find(rs, RoleOf(user)) # 0 THEN rs[Find(rs, RoleOf(user))].permissions
    ELSE {}

\* A resolution that takes the last matching record of the roles collection.
ResolvePermissions_LastMatch(user, rs, table) ==
    IF user = None THEN {}
    ELSE LET hits == {k \in 1..Len(rs) : rs[k].id = RoleOf(user)}
         IN  IF hits # {}
             THEN rs[CHOOSE k \in hits : \A j \in hits : j <= k].permissions
             ELSE IF RoleOf(user) \in DOMAIN table THEN table[RoleOf(user)] ELSE {}

\* part_001 lines 183-205: the value handed to setUserPermissions.
ResolvePermissions(user, rs, table) ==
    IF user # None
    THEN LET fetchedRole == Find(rs, RoleOf(user))
         IN  IF fetchedRole # 0
             THEN rs[fetchedRole].permissions
             ELSE IF RoleOf(user) \in DOMAIN table
                  THEN table[RoleOf(user)]     \* defaultPerms
                  ELSE {}
    ELSE {}

\* The provider mounts with some table, no identity and no roles.
InitPerm ==
    /\ InitCore
    /\ InitAudit
    /\ InitErrors
    /\ InitFetch
    /\ userPermissions = {}
    /\ DEFAULT_ROLE_PERMISSIONS \in DefaultTables

\* setCurrentUser (part_001 lines 225, 250, 291) followed by the effect.
UserChange(user) ==
    /\ user # currentUser
    /\ currentUser' = user
    /\ isAuthenticated' = (user # None)
    /\ userPermissions' = ResolvePermissions(user, roles, DEFAULT_ROLE_PERMISSIONS)
    /\ UNCHANGED <<gwVars, toasts, bootVars, DEFAULT_ROLE_PERMISSIONS, auditVars, errVars, fetchVars>>

\* setRoles (part_001 lines 143, 344, 345, 352) followed by the effect.
RolesChange(rs) ==
    /\ rs # roles
    /\ roles' = rs
    /\ userPermissions' = ResolvePermissions(currentUser, rs, DEFAULT_ROLE_PERMISSIONS)
    /\ UNCHANGED <<gwVars, toasts, currentUser, isAuthenticated, DEFAULT_ROLE_PERMISSIONS,
                   auditVars, errVars, fetchVars>>
    /\ UNCHANGED <<boot, lastGated, lastFailed, lastCompany, lastThrown, isLoading, companyInfo, categories, offices,
                   shippingTypes, paymentMethods, users, expenseCategories, cuentasContables>>

NextPerm ==
    \/ \E user \in UserIds \cup {None} : UserChange(user)
    \/ \E rs \in RoleLists : RolesChange(rs)

SpecPerm == InitPerm /\ [][NextPerm]_vars

\* ------------------------------------------------- audit log (SystemContext)
MaxLogActions == 2   \* logAction calls in a behaviour
MaxSignIns == 2      \* sign-ins in a behaviour

\* The server's answers to POST /audit-logs and to GET /audit-logs.
WriteResponses ==
    {JsonOk(Payload(None, None, None, <<"savedLog">>)), Unauthorized,
     HttpError(403, <<"No tiene los permisos">>), HttpError(500, NoBody), TransportFailure}
ReadResponses ==
    {JsonOk(Payload(None, None, None, <<"log1">>)), JsonOk(Payload(None, None, None, <<>>)),
     Unauthorized, HttpError(403, <<"No tiene los permisos">>), HttpError(500, NoBody)}

\* SystemContext.tsx lines 24-25 and 29
CanReadLogs(user) == RoleOf(user) = "role-admin" \/ RoleOf(user) = "role-tech"

\* A write that adds the saved entry whatever the closure saw.
WriteMirror_Always(sawLogs, res, mirror) ==
    IF res.ok THEN res.data.items \o mirror ELSE mirror

\* SystemContext.tsx lines 66-78: the mirror after the POST settles.  sawLogs
\* is auditLog.length > 0 of the closure that made the call.
WriteMirror(sawLogs, res, mirror) ==
    IF res.ok /\ sawLogs THEN res.data.items \o mirror ELSE mirror

\* SystemContext.tsx lines 30-43: the mirror after the GET settles.
ReadMirror(res, mirror) == IF res.ok THEN res.data.items ELSE mirror

\* An effect that fetches for every identity.
FetchIssued_Always(auth, user) == auth /\ user # None

\* SystemContext.tsx lines 23-29: the effect issues GET /audit-logs.
FetchIssued(auth, user) == auth /\ user # None /\ CanReadLogs(user)

auditFrame == <<storage, isRefreshing, refreshPromise, exchanges, calls, started, settled, lastRefresh,
                sessionLost, toasts, bootVars, permVars, errVars, fetchVars>>

\* The identity changes (part_001 lines 225-226, 249-250) and the effect of
\* SystemContext.tsx lines 21-52 runs.
AuthChange(auth, user) ==
    /\ ~reloadPending
    /\ <<auth, user>> # <<isAuthenticated, currentUser>>
    /\ auth => auditOps.signIns < MaxSignIns
    /\ isAuthenticated' = auth
    /\ currentUser' = user
    /\ auditOps' = IF auth THEN [auditOps EXCEPT !.signIns = @ + 1] ELSE auditOps
    /\ logReads' = IF FetchIssued(auth, user) THEN logReads + 1 ELSE logReads
    /\ auditLog' = IF FetchIssued(auth, user) THEN auditLog ELSE <<>>
    /\ lastAudit' = NoAudit
    /\ UNCHANGED <<auditFrame, logWrites, reloadPending>>

\* logAction(user, ...) up to its await: SystemContext.tsx lines 54-69.
LogAction(user) ==
    /\ ~reloadPending
    /\ auditOps.logActions < MaxLogActions
    /\ auditOps' = [auditOps EXCEPT !.logActions = @ + 1]
    /\ logWrites' = IF user = None THEN logWrites
                    ELSE logWrites (+) One([sawLogs |-> Len(auditLog) > 0])
    /\ lastAudit' = NoAudit
    /\ UNCHANGED <<auditFrame, auditLog, logReads, reloadPending, currentUser, isAuthenticated>>

\* The POST of a logAction call settles: SystemContext.tsx lines 66-78.
LogActionSettle(w, run) ==
    /\ w \in DOMAIN logWrites
    /\ logWrites' = logWrites (-) One(w)
    /\ auditLog' = WriteMirror(w.sawLogs, run.res, auditLog)
    /\ lastAudit' = [kind |-> "write", sawLogs |-> w.sawLogs, res |-> run.res, sent |-> run.sent]
    /\ reloadPending' = (reloadPending \/ run.res = SessionExpired)
    /\ UNCHANGED <<auditFrame, logReads, auditOps, currentUser, isAuthenticated>>

\* The GET of fetchLogs settles: SystemContext.tsx lines 31-43.
FetchLogsSettle(run) ==
    /\ logReads > 0
    /\ logReads' = logReads - 1
    /\ auditLog' = ReadMirror(run.res, auditLog)
    /\ lastAudit' = [kind |-> "read", sawLogs |-> FALSE, res |-> run.res, sent |-> run.sent]
    /\ reloadPending' = (reloadPending \/ run.res = SessionExpired)
    /\ UNCHANGED <<auditFrame, logWrites, auditOps, currentUser, isAuthenticated>>

\* The reload requested at part_000 line 35 takes effect.
AuditReload ==
    /\ reloadPending
    /\ reloadPending' = FALSE
    /\ auditLog' = <<>>
    /\ logWrites' = EmptyBag
    /\ logReads' = 0
    /\ lastAudit' = NoAudit
    /\ currentUser' = None
    /\ isAuthenticated' = FALSE
    /\ UNCHANGED <<auditFrame, auditOps>>

NextAudit ==
    \/ \E user \in UserIds : AuthChange(TRUE, user)
    \/ AuthChange(FALSE, None)
    \/ \E user \in UserIds \cup {None} : LogAction(user)
    \/ \E w \in DOMAIN logWrites : \E run \in ApiRuns(WriteResponses) : LogActionSettle(w, run)
    \/ \E run \in ApiRuns(ReadResponses) : FetchLogsSettle(run)
    \/ AuditReload

SpecAudit == Init /\ [][NextAudit]_vars

\* --------------------------------------------- error list (SystemContext)
MaxErrors == 102     \* window.onerror events in a behaviour

\* SystemContext.tsx line 92: prev.slice(0, 99)
KeptOnTrim == 99

\* Array.prototype.slice(0, n)
Slice(list, n) == SubSeq(list, 1, IF Len(list) < n THEN Len(list) ELSE n)

\* A trim that keeps the oldest entries of the list.
Recorded_KeepsOldest(prev, newError) ==
    <<newError>> \o SubSeq(prev, (IF Len(prev) < KeptOnTrim THEN 0 ELSE Len(prev) - KeptOnTrim) + 1, Len(prev))

\* SystemContext.tsx line 92: [newError, ...prev.slice(0, 99)]
Recorded(prev, newError) == <<newError>> \o Slice(prev, KeptOnTrim)

\* window.onerror fires: SystemContext.tsx lines 82-93.  The entry recorded
\* for the n-th event is n.
HandleError ==
    /\ errorEvents < MaxErrors
    /\ errorEvents' = errorEvents + 1
    /\ appErrors' = Recorded(appErrors, errorEvents + 1)
    /\ UNCHANGED <<gwVars, toasts, currentUser, isAuthenticated, bootVars, permVars, auditVars,
                   fetchVars>>

NextErr == HandleError

SpecErr == Init /\ [][NextErr]_vars

\* ------------------------------------------------- one apiFetch call alone
\* What the server may answer to a request: JSON, another content-type, no
\* content-type, 204 without and with a JSON content-type, a body announced
\* as JSON that does not parse, and the error statuses with and without a
\* message in the body.
FetchResponses ==
    { JsonOk(Payload(None, None, None, <<"d1">>)),
      Response(201, "json", NoBody, Payload(None, None, None, <<"created">>)),
      Response(200, "text", NoBody, Payload(None, None, None, <<"<html>">>)),
      Response(200, "none", NoBody, Payload(None, None, None, <<"raw">>)),
      NoContent, MalformedJson(204), MalformedJson(200),
      Unauthorized,
      HttpError(400, <<"Saldo insuficiente">>),
      HttpError(403, <<"No tiene los permisos">>),
      HttpError(404, NoBody),
      HttpError(500, NoBody),
      HttpError(500, <<"Connection refused">>),
      TransportFailure }

FetchEndpoints == {"/categories", "/company-info", "/audit-logs"}
StoredTokens == {None, "A1"}
\* What `await refreshPromise` may yield: null or the new access credential.
RefreshYields == {None, FreshToken(1)}

fetchFrame == <<gwVars, toasts, currentUser, isAuthenticated, bootVars, permVars, auditVars,
                errVars>>

\* apiFetch(ep) is called with token in the store: part_000 lines 44-67.
ApiFetch(ep, token) ==
    /\ fetch.st \in {"idle", "done"}
    /\ fetch' = NewCall(ep, "api", token, FALSE)
    /\ awaited' = 0
    /\ UNCHANGED fetchFrame

\* The first request is answered: part_000 lines 67-75 and, when the status
\* is not 401, lines 91-138.
FetchResponse(resp) ==
    /\ fetch.st = "sent"
    /\ fetch' = IF resp.status = 401
                THEN [fetch EXCEPT !.st = "waitRefresh", !.final = resp]
                ELSE Settle(fetch, resp)
    /\ UNCHANGED <<awaited, fetchFrame>>

\* `await refreshPromise` yields: part_000 lines 76-88.
FetchRefreshed(value) ==
    /\ fetch.st = "waitRefresh"
    /\ fetch' = Resume(fetch, value)
    /\ awaited' = awaited + 1
    /\ UNCHANGED fetchFrame

\* The replay is answered: part_000 lines 84 and 91-138.
FetchReplay(resp) ==
    /\ fetch.st = "retry"
    /\ fetch' = Settle(fetch, resp)
    /\ UNCHANGED <<awaited, fetchFrame>>

NextFetch ==
    \/ \E ep \in FetchEndpoints : \E token \in StoredTokens : ApiFetch(ep, token)
    \/ \E resp \in FetchResponses : FetchResponse(resp)
    \/ \E value \in RefreshYields : FetchRefreshed(value)
    \/ \E resp \in FetchResponses : FetchReplay(resp)

SpecFetch == Init /\ [][NextFetch]_vars

\* ================================================================ claims
Seen == Active \cup Returned     \* the calls in flight and those just returned

\* ---------------------------------------------------------------------- C1
\* C1 as stated: every call that observed a 401 belongs to a cycle for which
\* exactly one refresh exchange was issued; the calls of a cycle are all
\* replayed with that exchange's access credential, or all fail with the
\* session-expired error.
C1_ExactlyOneExchange ==
    \A r \in Seen :
        (r.st = "waitRefresh" \/ Answered(r)) =>
            /\ r.awaits \in ExchangeIds
            /\ r.st = "waitRefresh" => InFlight = {r.awaits}
            /\ Answered(r) =>
                /\ r.got = exchanges[r.awaits].value
                /\ r.got # None => r.retryHdr = r.got /\ r.sent = 2
                /\ r.got = None => r.st = "done" /\ r.res = SessionExpired

\* C1 amended: the calls that observe a 401 while one refresh cycle is
\* outstanding share at most one refresh exchange: exactly one when a refresh
\* credential is stored when the cycle starts, none when there is none (the
\* call then fails with the session-expired error at once).  If the exchange
\* succeeds all of them are replayed with its access credential, if it fails
\* all of them fail with the session-expired error.
C1_SingleFlightOutcome ==
    \A r \in Seen :
        /\ r.st = "waitRefresh" => InFlight = {r.awaits}
        /\ Answered(r) /\ r.awaits = 0 =>
            /\ r.got = None /\ r.st = "done" /\ r.res = SessionExpired /\ r.sent = 1
            /\ storage.refreshToken = None
        /\ Answered(r) /\ r.awaits # 0 =>
            /\ r.awaits \in ExchangeIds
            /\ exchanges[r.awaits].with # None
            /\ r.got = exchanges[r.awaits].value
            /\ r.got # None => r.retryHdr = r.got /\ r.sent = 2
            /\ r.got = None => r.st = "done" /\ r.res = SessionExpired

\* Two calls of one cycle, replayed with the same new access credential.
C1_Witness ==
    \E k \in ExchangeIds :
        /\ exchanges[k].value # None
        /\ BagCardinality(SubBagOf(calls, LAMBDA r : r.awaits = k /\ r.st = "retry"
                                                      /\ r.retryHdr = exchanges[k].value)) >= 2

\* ---------------------------------------------------------------------- C2
\* C2: in every reachable state at most one refresh-token exchange is in
\* flight.
C2_AtMostOneExchangeInFlight == Cardinality(InFlight) <= 1

\* Two calls awaiting the one exchange in flight.
C2_Witness ==
    \E k \in InFlight :
        BagCardinality(SubBagOf(calls, LAMBDA r : r.st = "waitRefresh" /\ r.awaits = k)) >= 2

\* ---------------------------------------------------------------------- C3
\* C3: once a refresh exchange has failed, and until somebody signs in, both
\* stored credentials are absent and every apiFetch call started in that
\* period sends its request without an Authorization header.
C3_FailedRefreshClearsCredentials ==
    /\ sessionLost => storage.accessToken = None /\ storage.refreshToken = None
    /\ \A r \in Seen : r.expired => r.hdr = None

\* A call started after a failed exchange.
C3_Witness ==
    /\ sessionLost
    /\ \E k \in ExchangeIds : exchanges[k].reloads = 1
    /\ \E r \in Active : r.expired /\ r.st = "sent"

\* ---------------------------------------------------------------------- C4
\* C4 as stated: when a 401 reaches the coordinator and no refresh credential
\* is stored, both stored credentials are absent afterwards, a session reset
\* is forced, and the caller gets null.
C4_NoCredentialTakesFailurePath ==
    \A r \in Returned :
        (Answered(r) /\ r.awaits = 0) =>
            /\ r.got = None
            /\ storage.accessToken = None /\ storage.refreshToken = None
            /\ reloadPending

\* ---------------------------------------------------------------------- C5
\* C5: a call that got an access credential from the coordinator is replayed
\* exactly once, with that credential as its Authorization header, and what
\* the caller receives is the outcome of the replay's response.
C5_ReplayOnceWithNewToken ==
    \A r \in Seen :
        (Answered(r) /\ r.got # None) =>
            /\ r.st \in {"retry", "done"}
            /\ r.sent = 2
            /\ r.retryHdr = r.got
            /\ r.st = "done" => r.res = ApiOutcome(r.final)

\* The scenario of the specification: refreshed with A2, replay answered 200.
C5_Witness ==
    \E r \in Returned : r.got = "A2" /\ r.retryHdr = "A2" /\ r.sent = 2 /\ r.res.ok

\* ---------------------------------------------------------------------- C6
\* C6: a call to which the coordinator yields null fails with the
\* session-expired error, having sent one request and no replay.
C6_NullCredentialFailsTerminally ==
    \A r \in Seen :
        (Answered(r) /\ r.got = None) =>
            /\ r.st = "done"
            /\ r.res = SessionExpired
            /\ r.sent = 1
            /\ r.retryHdr = None

\* A call failed by a refresh exchange that was rejected.
C6_Witness ==
    \E r \in Returned : r.got = None /\ r.awaits \in ExchangeIds /\ r.res = SessionExpired

\* ---------------------------------------------------------------------- C7
\* C7 as stated: the stored access credential and the stored refresh
\* credential are both present or both absent.
C7_CredentialPairInvariant ==
    (storage.accessToken = None) <=> (storage.refreshToken = None)

Elevated(u) == RoleOf(u) \in {"role-admin", "role-tech"}

\* C8: a bootstrap run for an identity whose role is neither role-admin nor
\* role-tech never issues a request to /users, /roles, /expense-categories
\* or /cuentas-contables.
C8_NonElevatedNeverRequestsGated ==
    \A i \in RunIds : ~Elevated(boot[i].user) => boot[i].requested \cap Gated = {}

\* A run for an operator has gone through the first group and finished.
C8_Witness ==
    \E i \in RunIds :
        /\ boot[i].user = "u-oper"
        /\ boot[i].phase = "done"
        /\ boot[i].requested = AlwaysFetchable
        /\ categories = <<"d1">>

\* C9: at the step in which a run whose first group succeeded finishes, the
\* chart of accounts becomes the fetched sequence if the identity is elevated
\* and the fetch returned a non-empty sequence, the built-in default chart if
\* the identity is elevated and the fetch failed or returned an empty
\* sequence, and the empty sequence (with no fetch attempted) if the identity
\* is not elevated; the three values differ.
C9_ChartThreeWay ==
    [][\A i \in RunIds :
          (boot[i].phase \in {"g1", "g2"} /\ boot'[i].phase = "done") =>
              LET run == boot'[i]
                  chart == lastGated'.g["/cuentas-contables"]
                  gotList == chart.ok /\ chart.data.items # <<>>
              IN  /\ Elevated(run.user) <=> lastGated'.run = i
                  /\ (Elevated(run.user) /\ gotList)
                        => /\ cuentasContables' = chart.data.items
                           /\ cuentasContables' # PLAN_DE_CUENTAS_INICIAL
                  /\ (Elevated(run.user) /\ ~gotList)
                        => /\ cuentasContables' = PLAN_DE_CUENTAS_INICIAL
                           /\ cuentasContables' # <<>>
                  /\ ~Elevated(run.user)
                        => /\ cuentasContables' = <<>>
                           /\ run.requested \cap Gated = {}]_vars

\* An elevated run finished after a 403 on the chart of accounts and the
\* default chart is in place.
C9_Witness ==
    \E i \in RunIds :
        /\ Elevated(boot[i].user)
        /\ boot[i].phase = "done"
        /\ lastGated.run = i
        /\ lastGated.g["/cuentas-contables"] = Forbidden
        /\ cuentasContables = PLAN_DE_CUENTAS_INICIAL

\* C10: when the first group of a run settles with one of its four fetches
\* failed, the run aborts in that step: it has issued no gated request, it
\* emits exactly one partial-load notification and isLoading becomes false;
\* an aborted run does nothing more.
C10_FailFastAbort ==
    [][\A i \in RunIds :
          /\ (boot[i].phase = "g1" /\ boot'[i] # boot[i] /\ lastFailed' # {}) =>
                /\ boot'[i].phase = "aborted"
                /\ boot'[i].requested \cap Gated = {}
                /\ boot'[i].errors = 1
                /\ toasts'["Error de Carga Parcial"] = 1
                /\ isLoading' = FALSE
          /\ boot[i].phase = "aborted" => boot'[i] = boot[i]]_vars

\* A run of an elevated identity has aborted on a failed first-group fetch.
C10_Witness ==
    \E i \in RunIds :
        /\ Elevated(boot[i].user)
        /\ boot[i].phase = "aborted"
        /\ lastFailed = {"/offices"}
        /\ boot[i].errors = 1
        /\ toasts["Error de Carga Parcial"] = 1
        /\ ~isLoading

\* ---------------------------------------------------------------------- C11
\* What the gated group of the last task leaves in a collection other than
\* the chart of accounts: the list fetched, or the empty fallback.
OwnResult(ep) == IF lastGated.g[ep].ok THEN lastGated.g[ep].data.items ELSE <<>>

\* The gated group that settled in the last task completed the bootstrap:
\* no abort, no notification, isLoading false.
GatedGroupCompleted ==
    /\ boot[lastGated.run].phase = "done"
    /\ boot[lastGated.run].errors = 0
    /\ toasts = NoToasts
    /\ ~isLoading
    /\ users = OwnResult("/users")
    /\ roles = OwnResult("/roles")
    /\ expenseCategories = OwnResult("/expense-categories")

\* C11 as stated: a failed gated fetch never aborts the group or the
\* bootstrap, every failed gated collection becomes the empty fallback and
\* the other collections receive their own results.
C11_FailedGatedBecomesEmpty ==
    lastGated.run # 0 =>
        /\ GatedGroupCompleted
        /\ cuentasContables = OwnResult("/cuentas-contables")

\* C11 amended: a failed gated fetch never aborts the group or the bootstrap;
\* users, roles and expense categories become the empty fallback when their
\* fetch failed and their own result otherwise; the chart of accounts becomes
\* its own result when that is a non-empty list, and the built-in default
\* chart when its fetch failed or returned an empty list.
C11_FailedGatedFallsBack ==
    lastGated.run # 0 =>
        /\ GatedGroupCompleted
        /\ cuentasContables = IF OwnResult("/cuentas-contables") # <<>>
                              THEN OwnResult("/cuentas-contables")
                              ELSE PLAN_DE_CUENTAS_INICIAL

\* The fetch of /roles was answered 404; users and expense categories hold
\* their own lists and roles is empty.
C11_Witness ==
    /\ lastGated.run # 0
    /\ lastGated.g["/roles"] = NotFound
    /\ users = <<"/users">>
    /\ roles = <<>>
    /\ expenseCategories = <<"/expense-categories">>
    /\ cuentasContables = <<"c1">>

\* ---------------------------------------------------------------------- C12
\* C12: whenever the identity's role id matches a record of the fetched
\* roles collection, the permission set in force is that record's
\* permissions, whatever entry the default table has for the role id.
C12_FetchedRoleWins ==
    \A k \in 1..Len(roles) :
        (/\ currentUser # None
         /\ roles[k].id = RoleOf(currentUser)
         /\ \A j \in 1..(k - 1) : roles[j].id # RoleOf(currentUser))
            => userPermissions = roles[k].permissions

\* The identity's role is in the fetched collection and in the default table
\* with different permissions, and the effect has adopted the fetched ones.
C12_Witness ==
    /\ currentUser = "u-oper"
    /\ Len(roles) = 2
    /\ roles[2] = [id |-> "role-operator", permissions |-> {"invoices"}]
    /\ roles[1].id = "role-admin"
    /\ "role-operator" \in DOMAIN DEFAULT_ROLE_PERMISSIONS
    /\ DEFAULT_ROLE_PERMISSIONS["role-operator"] = {"invoices", "config"}
    /\ userPermissions = {"invoices"}

C14_OnePostMirrorUnchanged ==
    [][(lastAudit'.kind = "write" /\ ~lastAudit'.sawLogs) =>
           (lastAudit'.sent = 1 /\ auditLog' = auditLog)]_vars

\* C14 amended: a logAction call made while the mirror is empty makes one
\* apiFetch call for POST /audit-logs, which sends the request once, or twice
\* when the first answer is 401 and the refresh yields a credential; the
\* mirror is the same after the write has completed, whatever the outcome.
C14_OneCallMirrorUnchanged ==
    [][(lastAudit'.kind = "write" /\ ~lastAudit'.sawLogs) =>
           /\ lastAudit'.sent \in {1, 2}
           /\ lastAudit'.sent = 2 => lastAudit'.res # SessionExpired
           /\ BagCardinality(logWrites') = BagCardinality(logWrites) - 1
           /\ auditLog' = auditLog]_vars

\* The write of a call made with an empty mirror was first answered 401 and
\* then saved by the server on the replay; the mirror is still empty.
C14_Witness ==
    /\ lastAudit.kind = "write"
    /\ ~lastAudit.sawLogs
    /\ lastAudit.res.ok
    /\ lastAudit.sent = 2
    /\ auditLog = <<>>

\* ---------------------------------------------------------------------- C18
\* C18: a sign-in of an identity outside the elevated tier issues no
\* GET /audit-logs and sets the mirror to empty; a sign-in of an elevated
\* identity issues one GET /audit-logs, and when a GET /audit-logs succeeds
\* the collection it returned becomes the mirror.
C18_ReadOnlyForElevated ==
    [][/\ (/\ isAuthenticated' /\ currentUser' # None
           /\ <<isAuthenticated', currentUser'>> # <<isAuthenticated, currentUser>>) =>
              IF Elevated(currentUser')
              THEN logReads' = logReads + 1
              ELSE logReads' = logReads /\ auditLog' = <<>>
       /\ (lastAudit'.kind = "read" /\ lastAudit'.res.ok) =>
              auditLog' = lastAudit'.res.data.items]_vars

\* An elevated identity is signed in and its GET /audit-logs has just
\* succeeded: the mirror holds the fetched collection.
C18_Witness ==
    /\ isAuthenticated
    /\ currentUser # None
    /\ Elevated(currentUser)
    /\ lastAudit.kind = "read"
    /\ lastAudit.res.ok
    /\ auditLog = <<"log1">>

\* ---------------------------------------------------------------------- C15
\* The calls of owner o in bag B.
CallsOf(B, o) == BagCardinality(SubBagOf(B, LAMBDA r : r.owner = o))
LoginCount(B) == BagCardinality(SubBagOf(B, LAMBDA r : IsLogin(r.owner)))
\* The handleLogin calls that return to their caller in this step.
LoginsReturning ==
    IF ~reloadPending /\ LoginCount(calls') < LoginCount(calls)
    THEN {r \in Active : IsLogin(r.owner) /\ CopiesIn(r, calls') < CopiesIn(r, calls)}
    ELSE {}
ToastCount(ts) == ts["Bienvenido"] + ts["Error de Autenticacion"] + ts["Sesion Cerrada"]
                    + ts["Error al cerrar sesion"] + ts["Error de Carga Parcial"]

\* C15: when a sign-in succeeds (its response carries user, accessToken and
\* refreshToken), both tokens are stored with the returned values, the
\* identity is installed, the session is marked active and exactly one
\* audit entry INICIO_SESION is submitted.
C15_SignInInstallsSession ==
    [][(LoginsReturning # {} /\ toasts'["Error de Autenticacion"] = 0) =>
           /\ Cardinality(LoginsReturning) = 1
           /\ toasts'["Bienvenido"] = 1
           /\ storage'.accessToken = "A1"
           /\ storage'.refreshToken = "R1"
           /\ currentUser' = "u-admin"
           /\ isAuthenticated'
           /\ CallsOf(calls', "INICIO_SESION") = CallsOf(calls, "INICIO_SESION") + 1
           /\ CallsOf(calls', "CIERRE_SESION") = CallsOf(calls, "CIERRE_SESION")
           /\ started' = started + 1]_vars

\* A sign-in has just succeeded: the session is installed and its one
\* INICIO_SESION entry is on its way, with the new access credential.
C15_Witness ==
    /\ toasts["Bienvenido"] = 1
    /\ storage.accessToken = "A1"
    /\ storage.refreshToken = "R1"
    /\ currentUser = "u-admin"
    /\ isAuthenticated
    /\ \E r \in Active : r.owner = "INICIO_SESION" /\ r.st = "sent" /\ r.hdr = "A1"
    /\ CallsOf(calls, "INICIO_SESION") = 1

\* ---------------------------------------------------------------------- C16
\* C16 as stated: when a sign-in fails, the credential store, the identity
\* and the active-session flag are unchanged, one error notification is the
\* only effect, and the sign-in has sent no request but its own.
C16_FailedSignInChangesNothing ==
    [][(LoginsReturning # {} /\ toasts'["Bienvenido"] = 0) =>
           /\ storage' = storage
           /\ currentUser' = currentUser
           /\ isAuthenticated' = isAuthenticated
           /\ toasts'["Error de Autenticacion"] = Cardinality(LoginsReturning)
           /\ ToastCount(toasts') = toasts'["Error de Autenticacion"]
           /\ started' = started
           /\ \A r \in LoginsReturning : r.sent = 1 /\ r.awaits = 0]_vars

AuditActions == {"INICIO_SESION", "CIERRE_SESION"}
AuditCount(B) == BagCardinality(SubBagOf(B, LAMBDA r : r.owner \in AuditActions))
\* An audit write returns to logAction in this step and no sign-in or
\* sign-out request does.
OnlyAuditReturns ==
    /\ ~reloadPending
    /\ AuditCount(calls') < AuditCount(calls)
    /\ LoginCount(calls') = LoginCount(calls)
    /\ CallsOf(calls', "logout") = CallsOf(calls, "logout")

\* C19 as stated: the return of an audit write, successful or failed,
\* leaves the state of the initiating operation as it was (identity, session
\* flag, credential store, no reload) and emits no notification.
C19_AuditWriteHasNoEffect ==
    [][OnlyAuditReturns =>
           /\ currentUser' = currentUser
           /\ isAuthenticated' = isAuthenticated
           /\ toasts' = NoToasts
           /\ storage' = storage
           /\ ~reloadPending']_vars

\* C19 amended: the return of an audit write, successful or failed, raises
\* nothing in the initiating operation: identity and session flag are as
\* they were and no notification is emitted; the credential store is as it
\* was too, unless the write was answered 401 and the refresh exchange it
\* awaited failed, in which case both credentials have been removed and the
\* page reloads.
C19_AuditFailureRaisesNothing ==
    [][OnlyAuditReturns =>
           /\ currentUser' = currentUser
           /\ isAuthenticated' = isAuthenticated
           /\ toasts' = NoToasts
           /\ \/ storage' = storage /\ reloadPending' = reloadPending
              \/ /\ reloadPending'
                 /\ storage' = LogoutStore(storage)
                 /\ \E k \in InFlight : exchanges'[k].st = "settled" /\ exchanges'[k].value = None]_vars

\* The INICIO_SESION write of a running session was replayed after a
\* refresh and failed: the session is as the sign-in left it, nothing is
\* notified.
C19_Witness ==
    /\ \E r \in Returned : r.owner = "INICIO_SESION" /\ r.sent = 2 /\ ~r.res.ok
    /\ currentUser = "u-admin"
    /\ isAuthenticated
    /\ storage.refreshToken # None
    /\ toasts = NoToasts
    /\ ~reloadPending

\* ---------------------------------------------------------------------- C20
\* C20: after any sequence of recorded error events the error list holds at
\* most 100 entries, newest first, and they are the 100 most recently
\* recorded events.
C20_ErrorListCapped ==
    /\ Len(appErrors) <= 100
    /\ Len(appErrors) = (IF errorEvents < 100 THEN errorEvents ELSE 100)
    /\ \A i \in 1..Len(appErrors) : appErrors[i] = errorEvents - i + 1

\* 102 events were recorded: the list holds the events 102 down to 3.
C20_Witness ==
    /\ errorEvents = 102
    /\ Len(appErrors) = 100
    /\ appErrors[1] = 102
    /\ appErrors[100] = 3

\* ---------------------------------------------------------------------- C21
\* A run started without an active session has requested /company-info and
\* nothing else, and in the step in which its fetch settles the record
\* adopted is the fetched one on success and the offline fallback on any
\* failure, and isLoading is false.
CompanyFetchAdopted ==
    \A i \in RunIds :
        /\ ~boot[i].auth => boot[i].requested = {"/company-info"}
        /\ (boot[i].phase = "company" /\ boot'[i].phase = "done") =>
              /\ lastCompany'.run = i
              /\ lastCompany'.res.ok => companyInfo' = lastCompany'.res.data.items
              /\ ~lastCompany'.res.ok => companyInfo' = FALLBACK_COMPANY_INFO
              /\ ~isLoading'

\* C21 as stated: without an identity the bootstrap issues a single
\* GET /company-info; on success the fetched record is adopted, on any
\* failure the offline fallback, and isLoading becomes false once the fetch
\* settles.
C21_SingleGetThenAdopt ==
    [][/\ CompanyFetchAdopted
       /\ lastCompany'.run # 0 => lastCompany'.sent = 1]_vars

\* C21 amended: without an active session the bootstrap makes a single
\* apiFetch call for /company-info, which sends the GET once, or twice when
\* the first answer is 401 and the refresh yields a credential; on success
\* the fetched record is adopted, on any failure the offline fallback, and
\* isLoading becomes false once the call settles.
C21_SingleFetchThenAdopt ==
    [][/\ CompanyFetchAdopted
       /\ lastCompany'.run # 0 =>
              /\ lastCompany'.sent \in {1, 2}
              /\ lastCompany'.sent = 2 => lastCompany'.res # SessionExpired]_vars

\* The server could not be reached: the offline fallback is in place and
\* loading is over, after one GET.
C21_Witness ==
    /\ lastCompany.run # 0
    /\ ~boot[lastCompany.run].auth
    /\ boot[lastCompany.run].phase = "done"
    /\ lastCompany.res = Unreachable
    /\ lastCompany.sent = 1
    /\ companyInfo = FALLBACK_COMPANY_INFO
    /\ ~isLoading

\* ---------------------------------------------------------------------- C22
\* The call has returned and the response it was decided on has a 2xx status.
ReturnedOn2xx == fetch.st = "done" /\ fetch.final.status # 0 /\ IsOk(fetch.final)

\* What the gateway hands out for the 2xx response it was decided on: an
\* empty payload for 204, the parsed body for a JSON content-type, an empty
\* payload object for any other or missing content-type.
Payload2xx ==
    /\ fetch.final.status = 204 => fetch.res = Ok(EmptyObject)
    /\ (fetch.final.status # 204 /\ fetch.final.ctype = "json" /\ fetch.final.valid)
          => fetch.res = Ok(fetch.final.body)
    /\ (fetch.final.status # 204 /\ fetch.final.ctype # "json") => fetch.res = Ok(EmptyObject)

\* C22 as stated: for a 2xx response the gateway never fails: status 204
\* yields an empty payload, a JSON content-type the parsed body, any other
\* or missing content-type an empty payload object.
C22_NeverFailsOn2xx ==
    ReturnedOn2xx => (fetch.res.ok /\ Payload2xx)

\* C22 amended: for a 2xx response, status 204 yields an empty payload, a
\* JSON content-type whose body parses yields the parsed body, and any other
\* or missing content-type yields an empty payload object; the gateway fails
\* on a 2xx response only when the status is not 204 and the body announced
\* as JSON does not parse.
C22_FailsOn2xxOnlyOnBadJson ==
    ReturnedOn2xx =>
        /\ Payload2xx
        /\ ~fetch.res.ok <=>
              (fetch.final.status # 204 /\ fetch.final.ctype = "json" /\ ~fetch.final.valid)

\* A 200 answer of another content-type was received on the replay: the
\* caller got an empty object, not the body.
C22_Witness ==
    /\ fetch.st = "done"
    /\ fetch.sent = 2
    /\ fetch.final.status = 200
    /\ fetch.final.ctype = "text"
    /\ fetch.final.body # EmptyObject
    /\ fetch.res = Ok(EmptyObject)

\* ---------------------------------------------------------------------- C23
\* C23 as stated: a transport failure of the request is reported with the
\* cannot-reach-server message, and a response with a non-2xx status is
\* never reported with that message.
C23_CannotReachOnlyForTransport ==
    fetch.st = "done" =>
        /\ fetch.final.status = 0 => fetch.res = Err(CannotReachServerMsg)
        /\ (fetch.final.status # 0 /\ ~IsOk(fetch.final)) => fetch.res.msg # CannotReachServerMsg

\* ---------------------------------------------------------------------- C27
\* C27: one apiFetch call sends at most two requests and awaits the
\* coordinator at most once; the answer to the replay, 401 included, decides
\* the call with no further refresh and no third request, and a status that
\* is neither 401 nor 2xx on the first request fails the call after that one
\* request.
C27_AtMostOneReplay ==
    /\ fetch.sent <= 2
    /\ awaited <= 1
    /\ fetch.st = "retry" => fetch.sent = 2 /\ awaited = 1
    /\ (fetch.st = "done" /\ fetch.sent = 2) =>
          /\ awaited = 1
          /\ fetch.res = ApiOutcome(fetch.final)
          /\ ~IsOk(fetch.final) => ~fetch.res.ok
    /\ (fetch.st = "done" /\ fetch.final.status \notin {0, 401} /\ ~IsOk(fetch.final)
          /\ fetch.got = "unset") =>
          /\ fetch.sent = 1
          /\ awaited = 0
          /\ ~fetch.res.ok

\* The replay was answered 401: the call failed after two requests and one
\* refresh.
C27_Witness ==
    /\ fetch.st = "done"
    /\ fetch.sent = 2
    /\ awaited = 1
    /\ fetch.final = Unauthorized
    /\ ~fetch.res.ok
    /\ fetch.res # SessionExpired

\* ---------------------------------------------------------------------- C24
\* The POST /auth/logout of a sign-out returns in this step.
SignOutReturns == ~reloadPending /\ CallsOf(calls', "logout") < CallsOf(calls, "logout")
\* A refresh exchange fails in this step.
RefreshFails == ~reloadPending /\ reloadPending'

\* C24 as stated: after a sign-out or an unrecoverable refresh failure the
\* access credential, the refresh credential and the remembered-identity
\* hint are all absent from storage.
C24_AllThreeEntriesCleared ==
    [][(SignOutReturns \/ RefreshFails) => storage' = EmptyStorage]_vars

\* C24 amended: after a sign-out or an unrecoverable refresh failure the
\* access credential and the refresh credential are absent from storage;
\* the remembered-identity hint is left as it was (it is written and removed
\* by sign-in only).
C24_CredentialsClearedHintKept ==
    [][(SignOutReturns \/ RefreshFails) =>
           /\ storage'.accessToken = None
           /\ storage'.refreshToken = None
           /\ storage'.rememberedUser = storage.rememberedUser]_vars

\* A refresh exchange of a remembered identity's session has failed: both
\* credentials are gone and the hint is still stored.
C24_Witness ==
    /\ reloadPending
    /\ \E k \in ExchangeIds : exchanges[k].reloads = 1 /\ exchanges[k].with = "R1"
    /\ storage.accessToken = None
    /\ storage.refreshToken = None
    /\ storage.rememberedUser = "u-admin"

\* ---------------------------------------------------------------------- C25
\* The exchanges that settle in this step, and the calls that start to
\* await refreshPromise in it.
SettledNow == {k \in InFlight : exchanges'[k].st = "settled"}
Joined == {q \in BagToSet(calls') : q.st = "waitRefresh" /\ CopiesIn(q, calls') > CopiesIn(q, calls)}

\* The coordinator is Idle after every exchange that settles, is not Idle
\* while an exchange is in flight, and a call that starts to wait awaits an
\* exchange in flight: a new one when the coordinator was Idle, the
\* outstanding one otherwise.
CycleDiscipline ==
    /\ SettledNow # {} => (~isRefreshing' /\ refreshPromise' = 0)
    /\ \A k \in 1..Len(exchanges') :
          exchanges'[k].st = "inflight" => (isRefreshing' /\ refreshPromise' = k)
    /\ \A q \in Joined :
          /\ q.awaits \in 1..Len(exchanges')
          /\ exchanges'[q.awaits].st = "inflight"
          /\ ~isRefreshing => (q.awaits = Len(exchanges) + 1 /\ Len(exchanges') = Len(exchanges) + 1)
          /\ isRefreshing => (q.awaits = refreshPromise /\ exchanges' = exchanges)

\* C25 as stated: every refresh cycle that settles is followed by the
\* coordinator returning to Idle, a 401 observed after that starts a new
\* exchange rather than reusing the settled result, and the coordinator is
\* never Idle while an exchange it started is in flight.
C25_SettleThenNewExchange ==
    [][/\ CycleDiscipline
       /\ \A r \in BagToSet(calls') \cup BagToSet(settled') :
             (r.st = "waitRefresh" \/ Answered(r)) => r.awaits \in 1..Len(exchanges')]_vars

\* C25 amended: every refresh cycle that settles is followed by the
\* coordinator returning to Idle, and a 401 observed after that starts a new
\* refresh cycle rather than reusing the settled result: a new exchange when
\* a refresh credential is stored, and otherwise (as after every failed
\* cycle, which empties the store) a null credential with no exchange
\* issued; the coordinator is never Idle while an exchange it started is in
\* flight.
C25_SettleThenNewCycle ==
    [][/\ CycleDiscipline
       /\ \A r \in BagToSet(calls') \cup BagToSet(settled') :
             /\ r.st = "waitRefresh" => r.awaits \in 1..Len(exchanges')
             /\ (Answered(r) /\ r.awaits # 0) =>
                   /\ r.awaits \in 1..Len(exchanges')
                   /\ r.got = exchanges'[r.awaits].value
             /\ (Answered(r) /\ r.awaits = 0) =>
                   (r.got = None /\ storage'.refreshToken = None)]_vars

\* The first cycle has settled with a new credential and a 401 observed
\* afterwards has started a second exchange, which a call awaits.
C25_Witness ==
    /\ Len(exchanges) = 2
    /\ exchanges[1].st = "settled"
    /\ exchanges[1].value # None
    /\ exchanges[2].st = "inflight"
    /\ isRefreshing
    /\ refreshPromise = 2
    /\ \E r \in Active : r.st = "waitRefresh" /\ r.awaits = 2

\* ---------------------------------------------------------------------- C26
\* The calls that go on from line 76 in this step: those whose replay is
\* sent and those that raise the session-expired error.
Proceeding ==
    {q \in BagToSet(calls') : q.st = "retry" /\ CopiesIn(q, calls') > CopiesIn(q, calls)}
    \cup {q \in BagToSet(settled') : q.res = SessionExpired}

\* C26: a call that observed a 401 goes on (sends its replay or raises the
\* session-expired error) only in the step in which the exchange it awaits
\* settles; while that exchange is outstanding the call has sent one request
\* and has no result, so if the exchange never settles the call never
\* completes.  A call that awaits no exchange goes on only while no exchange
\* is outstanding.
C26_WaitersProceedOnSettle ==
    [][/\ \A q \in Proceeding :
             /\ q.awaits # 0 => q.awaits \in SettledNow
             /\ q.awaits = 0 => InFlight = {}
       /\ \A r \in BagToSet(calls') :
             r.st = "waitRefresh" =>
                 /\ r.awaits \in 1..Len(exchanges')
                 /\ exchanges'[r.awaits].st = "inflight"
                 /\ r.sent = 1 /\ r.retryHdr = None /\ r.got = "unset" /\ r.res = Pending
       /\ \A r \in BagToSet(calls') \cup BagToSet(settled') :
             (r.awaits # 0 /\ r.st # "waitRefresh") => exchanges'[r.awaits].st = "settled"]_vars

\* Two calls awaited the same exchange; it was rejected and both raised the
\* session-expired error in the task that settled it.
C26_Witness ==
    /\ BagCardinality(SubBagOf(settled, LAMBDA r : r.awaits = 1 /\ r.res = SessionExpired)) >= 2
    /\ exchanges[1].st = "settled"
    /\ exchanges[1].value = None

\* ---------------------------------------------------------------------- C28
\* C28: in the step in which a refresh exchange succeeds, the stored access
\* credential becomes the access credential of the answer, the stored
\* refresh credential becomes the refresh credential of the answer when it
\* carries one and is unchanged otherwise, and every call that awaited the
\* exchange receives the newly stored access credential (and replays with
\* it).
C28_RefreshPersistsAndReturns ==
    [][(lastRefresh'.k # 0 /\ lastRefresh'.accessToken # None) =>
           /\ storage'.accessToken = lastRefresh'.accessToken
           /\ storage'.refreshToken = IF lastRefresh'.refreshToken # None
                                      THEN lastRefresh'.refreshToken
                                      ELSE storage.refreshToken
           /\ storage'.rememberedUser = storage.rememberedUser
           /\ \A r \in Active :
                 (r.st = "waitRefresh" /\ r.awaits = lastRefresh'.k) =>
                     CopiesIn([r EXCEPT !.st = "retry", !.got = storage'.accessToken,
                                        !.retryHdr = storage'.accessToken, !.sent = 2], calls')
                         >= CopiesIn(r, calls)]_vars

\* An exchange answered without a refresh credential has just succeeded:
\* the new access credential is stored next to the old refresh credential
\* and two calls replay with it.
C28_Witness ==
    /\ lastRefresh.k = 1
    /\ lastRefresh.accessToken = "A2"
    /\ lastRefresh.refreshToken = None
    /\ storage.accessToken = "A2"
    /\ storage.refreshToken = "R1"
    /\ BagCardinality(SubBagOf(calls, LAMBDA r : r.awaits = 1 /\ r.st = "retry" /\ r.got = "A2")) >= 2

\* ---------------------------------------------------------------------- C29
\* C29: a run requests the four always-fetchable endpoints together when it
\* starts and nothing of the gated group then; it requests the gated group,
\* its four endpoints together, only in the step in which the first group
\* settles with all four fetches returned successfully (and adopted).
C29_GatedAfterFirstGroup ==
    [][\A i \in 1..Len(boot') :
          /\ boot'[i].requested \cap AlwaysFetchable \in {{}, AlwaysFetchable}
          /\ boot'[i].requested \cap Gated \in {{}, Gated}
          /\ i \notin RunIds => boot'[i].requested \cap Gated = {}
          /\ boot'[i].phase = "g1" => boot'[i].requested = AlwaysFetchable
          /\ (i \in RunIds /\ boot[i].requested \cap Gated = {} /\ boot'[i].requested \cap Gated # {}) =>
                /\ boot[i].phase = "g1"
                /\ boot'[i].phase = "g2"
                /\ lastFailed' = {}
                /\ categories' = <<"d1">>
                /\ offices' = <<"d1">>
                /\ shippingTypes' = <<"d1">>
                /\ paymentMethods' = <<"d1">>]_vars

\* The first group of an elevated run has returned its four lists and the
\* four gated requests are out.
C29_Witness ==
    \E i \in RunIds :
        /\ boot[i].user = "u-tech"
        /\ boot[i].phase = "g2"
        /\ boot[i].requested = AlwaysFetchable \cup Gated
        /\ categories = <<"d1">>
        /\ paymentMethods = <<"d1">>
        /\ lastFailed = {}

\* ---------------------------------------------------------------------- C30
\* part_001 lines 79-83 and part_000 line 106: a message of an
\* authorization-denied failure.
Denied(msg) == Includes(msg, "403") \/ Includes(msg, "No tiene los permisos")

\* C30 as stated: an authorization-denied response received by a fetch of
\* the bootstrap, in the first group or in the gated group, degrades to
\* empty or default data and never produces an error notification.
C30_DeniedNeverNotified ==
    /\ (lastGated.run # 0 /\ \E ep \in Gated : Denied(lastGated.g[ep].msg)) =>
          /\ toasts = NoToasts
          /\ boot[lastGated.run].phase = "done"
    /\ Denied(lastThrown) =>
          /\ toasts = NoToasts
          /\ \A i \in RunIds : boot[i].phase # "aborted"

\* ---------------------------------------------------------------------- C31
\* C31 as stated: a logAction write that completes changes the mirror only
\* by putting the entry the server returned at the head of the entries
\* already there, does so only when the mirror is non-empty, and leaves an
\* empty mirror empty.
C31_WriteNeverFillsEmptyMirror ==
    [][lastAudit'.kind = "write" =>
           /\ auditLog' # auditLog =>
                  /\ lastAudit'.res.ok
                  /\ auditLog' = lastAudit'.res.data.items \o auditLog
                  /\ auditLog # <<>>
           /\ auditLog = <<>> => auditLog' = <<>>]_vars

\* ---------------------------------------------------------------------- C32
\* C32: whatever changes of the identity and of the roles collection have
\* happened, once the effect has run the permission set is the three-tier
\* resolution of the current identity against the current roles collection:
\* the permissions of the first record whose id is the identity's role id,
\* else the default table's entry for that role id, else the empty set; and
\* it is the empty set when no identity is present.
C32_PermissionsTrackInputs ==
    IF currentUser = None
    THEN userPermissions = {}
    ELSE LET hits == {k \in 1..Len(roles) : roles[k].id = RoleOf(currentUser)}
         IN  IF hits # {}
             THEN \E k \in hits : /\ \A j \in hits : k <= j
                                  /\ userPermissions = roles[k].permissions
             ELSE IF RoleOf(currentUser) \in DOMAIN DEFAULT_ROLE_PERMISSIONS
                  THEN userPermissions = DEFAULT_ROLE_PERMISSIONS[RoleOf(currentUser)]
                  ELSE userPermissions = {}

\* The roles collection holds two records for the identity's role with
\* different permissions, and the set in force is the first record's.
C32_Witness ==
    /\ currentUser = "u-admin"
    /\ Len(roles) = 2
    /\ roles[1] = [id |-> "role-admin", permissions |-> {"invoices", "config"}]
    /\ roles[2] = [id |-> "role-admin", permissions |-> {"invoices"}]
    /\ userPermissions = {"invoices", "config"}

C34_MirrorEmptyOutsideElevated ==
    (~isAuthenticated \/ currentUser = None \/ ~Elevated(currentUser)) => auditLog = <<>>

\* ---------------------------------------------------------------------- C35
\* The collection snapshots the bootstrap writes.
Snapshots ==
    <<categories, offices, shippingTypes, paymentMethods,
      users, roles, expenseCategories, cuentasContables>>

\* The invocations of fetchConfigData that still await a fetch.
Outstanding == {i \in RunIds : boot[i].phase \in {"g1", "g2", "company"}}

\* C35 as stated: an invocation of the bootstrap never changes the snapshots
\* once an invocation for a later identity state has written its own, and
\* when no fetch is outstanding and the invocation for the current identity
\* has completed for an identity outside the elevated tier, the gated
\* collections hold what that invocation computed for them (the empty list).
C35_LaterResultsNeverOverwritten ==
    [][/\ \A i \in RunIds :
             (/\ boot'[i] # boot[i]
              /\ \E j \in RunIds : j > i /\ boot[j].auth /\ boot[j].phase = "done")
                => Snapshots' = Snapshots
       /\ (/\ Outstanding' = {}
           /\ boot' # <<>>
           /\ boot'[Len(boot')].auth
           /\ boot'[Len(boot')].phase = "done"
           /\ ~HasFullAccess(boot'[Len(boot')].user))
             => (users' = <<>> /\ roles' = <<>> /\ expenseCategories' = <<>>
                 /\ cuentasContables' = <<>>)]_vars

\* ---------------------------------------------------------------------- C36
\* C36 as stated: while an identity outside the elevated tier is signed in
\* and the invocation of the bootstrap for it has ended (completed or
\* aborted by the fail-fast group) with isLoading false, the users, roles,
\* expense-categories and chart-of-accounts collections are empty.
C36_GatedEmptyForNonElevated ==
    (/\ boot # <<>>
     /\ isAuthenticated
     /\ currentUser # None
     /\ ~HasFullAccess(currentUser)
     /\ boot[Len(boot)].phase \in {"done", "aborted"}
     /\ ~isLoading)
        => (users = <<>> /\ roles = <<>> /\ expenseCategories = <<>> /\ cuentasContables = <<>>)

==============================================================================
